---- MODULE Spec2Model ----
(***************************************************************************)
(* Model of the support-portal dashboard (src/js): the refresh coordinator *)
(* of class SupportPortalApp, the team-overview aggregation, the agent     *)
(* efficiency label and the SLA (overdue) evaluation.                      *)
(***************************************************************************)
EXTENDS Integers, Sequences, FiniteSets, TLC

VARIABLES
    \* ---- refresh coordinator (SupportPortalApp instance) ----
    isLoading,        \* this.isLoading
    refreshInterval,  \* this.refreshInterval is set (timer armed)
    listeners,        \* visibilitychange / focus listeners installed
    subscribed,       \* realtime channels subscribed
    phase,            \* position of init(): "new", "initLoading", "ready"
    destroyed,        \* destroy() has been called on the instance
    chartsTimeline,   \* this.charts.casesTimeline exists
    cycles,           \* in-flight loadDashboardData invocations
    standalone,       \* section invocations started by change notifications
    lastDone,         \* how the most recently finished cycle ended
    \* ---- team overview aggregation ----
    cases,            \* the case collection returned by the data source
    metrics,          \* metrics computed by dashboard.js
    metricsApp,       \* metrics computed by app.js
    \* ---- agent efficiency ----
    agent,            \* one agent performance record
    efficiency,       \* label from the class method
    efficiencyProto,  \* label from the prototype method
    \* ---- SLA evaluation ----
    case_item,        \* one case
    hoursOpenMs,      \* now - created, in milliseconds
    overdue,          \* result of SupportPortalApp.isCaseOverdue
    overdueCases,     \* result of cases.js isCaseOverdue
    \* ---- time-series charts ----
    endDate,          \* new Date() when a chart is built, in hours
    chartCases,       \* the cases of the data source, with their timestamps
    casesTimeline,    \* data of app.charts.casesTimeline (7 days)
    volume,           \* data of app.charts.volume (30 days)
    tatTrends,        \* data of app.charts.tatTrends (30 days)
    \* ---- per-agent aggregation ----
    agentRows,        \* the cases of the data source, with their agent_id
    performance,      \* record of the class calculateAgentPerformanceManually
    performanceProto, \* record of the prototype calculateAgentPerformanceManually
    agentPerformance, \* metrics of app.charts.agentPerformance
    agentDetailCard,  \* metrics of createAgentDetailCard
    \* ---- case status updates (cases.js) ----
    caseRow,          \* one row of the cases table of the data source
    rowStatus,        \* status interpolated into the row's quick-update button
    modalStatus,      \* status the open case modal was rendered from
    clock,            \* new Date(), in ticks
    lastUpdates,      \* the updates object of the last successful update
    \* ---- agent list section (dashboard.js) ----
    agentsTable,      \* the agents the data source holds
    agentList,        \* what #agentList shows
    \* ---- one render pass of the recent-cases table ----
    passCases,        \* the rows of the pass
    passNow,          \* the wall clock, in milliseconds since the rows' epoch
    passFlags,        \* overdue flag of each row rendered so far
    \* ---- analytics section (analytics.js) ----
    analyticsLoading, \* the module-level flag
    analyticsRuns,    \* position of each loadAnalyticsSection invocation
    analyticsCharts,  \* keys of app.charts, in creation order
    analyticsLog      \* what the last finished invocation did

coordVars == <<isLoading, refreshInterval, listeners, subscribed, phase,
               destroyed, chartsTimeline, cycles, standalone, lastDone>>
aggVars == <<cases, metrics, metricsApp>>
effVars == <<agent, efficiency, efficiencyProto>>
slaVars == <<case_item, hoursOpenMs, overdue, overdueCases>>
chartVars == <<endDate, chartCases, casesTimeline, volume, tatTrends>>
perfVars == <<agentRows, performance, performanceProto, agentPerformance,
              agentDetailCard>>
lifeVars == <<caseRow, rowStatus, modalStatus, clock, lastUpdates>>
listVars == <<agentsTable, agentList>>
passVars == <<passCases, passNow, passFlags>>
anaVars == <<analyticsLoading, analyticsRuns, analyticsCharts, analyticsLog>>
vars == <<coordVars, aggVars, effVars, slaVars, chartVars, perfVars,
          lifeVars, listVars, passVars, anaVars>>

(***************************************************************************)
(* JavaScript values: null, strings (sequences of characters) and numbers. *)
(***************************************************************************)
Null == [t |-> "null", s |-> <<>>, n |-> 0]
Str(s) == [t |-> "str", s |-> s, n |-> 0]
Num(n) == [t |-> "num", s |-> <<>>, n |-> n]

\* JavaScript truthiness: null, "" and 0 are falsy
Truthy(v) ==
    CASE v.t = "null" -> FALSE
      [] v.t = "str" -> v.s # <<>>
      [] v.t = "num" -> v.n # 0

LowerAlphabet == <<"a","b","c","d","e","f","g","h","i","j","k","l","m",
                   "n","o","p","q","r","s","t","u","v","w","x","y","z">>
UpperAlphabet == <<"A","B","C","D","E","F","G","H","I","J","K","L","M",
                   "N","O","P","Q","R","S","T","U","V","W","X","Y","Z">>
WhiteSpace == {" ", "\t", "\n"}

\* String.prototype.toLowerCase on a character sequence
toLowerCase(s) ==
    [i \in 1..Len(s) |->
        IF \E k \in 1..26 : UpperAlphabet[k] = s[i]
        THEN LowerAlphabet[CHOOSE k \in 1..26 : UpperAlphabet[k] = s[i]]
        ELSE s[i]]

\* String.prototype.trim: drop leading and trailing white space
trim(s) ==
    LET keep == {i \in 1..Len(s) : s[i] \notin WhiteSpace}
    IN  IF keep = {} THEN <<>>
        ELSE LET lo == CHOOSE i \in keep : \A j \in keep : i <= j
                 hi == CHOOSE i \in keep : \A j \in keep : j <= i
             IN  SubSeq(s, lo, hi)

\* Array.prototype.filter(P).length
CountIf(seq, P(_)) == Cardinality({i \in 1..Len(seq) : P(seq[i])})

\* Array.prototype.reduce((sum, x) => sum + x, 0)
RECURSIVE SumSeq(_)
SumSeq(nums) ==
    IF nums = <<>> THEN 0 ELSE Head(nums) + SumSeq(Tail(nums))

SumOf(seq, F(_)) == SumSeq([i \in 1..Len(seq) |-> F(seq[i])])

\* Math.round(a / b) for a >= 0, b > 0 (round half up)
RoundDiv(a, b) == (2 * a + b) \div (2 * b)

(***************************************************************************)
(* String literals of the source                                           *)
(***************************************************************************)
S_resolved == <<"r","e","s","o","l","v","e","d">>
S_closed == <<"c","l","o","s","e","d">>
S_new == <<"n","e","w">>
S_vip == <<"v","i","p">>
S_urgent == <<"u","r","g","e","n","t">>
S_normal == <<"n","o","r","m","a","l">>
S_low == <<"l","o","w">>
S_offline == <<"o","f","f","l","i","n","e">>

RESOLVED_STATUSES == {S_resolved, S_closed}
PriorityKeys == {S_vip, S_urgent, S_normal, S_low}

(***************************************************************************)
(* Team overview: calculateTeamOverviewManually                            *)
(***************************************************************************)
ZeroBreakdown == [p \in PriorityKeys |-> 0]

\* the all-zero metrics object of the empty branch and of the catch block
ZeroMetrics(err) ==
    [total_cases |-> 0, total_resolved |-> 0, total_pending |-> 0,
     pending_breakdown |-> ZeroBreakdown, team_avg_response_time |-> 0,
     errorPath |-> err]

\* c.status.toLowerCase() / c.priority.toLowerCase() throws a TypeError
\* when the value is truthy but not a string
ThrowsOnLower(v) == Truthy(v) /\ v.t # "str"

\* filter predicate of resolvedCases (dashboard.js)
isResolved(c) ==
    IF ~Truthy(c.status) THEN FALSE
    ELSE trim(toLowerCase(c.status.s)) \in RESOLVED_STATUSES

\* filter predicate of pendingCases (dashboard.js)
isPending(c) ==
    IF ~Truthy(c.status) THEN TRUE
    ELSE trim(toLowerCase(c.status.s)) \notin RESOLVED_STATUSES

\* a breakdown that walks all cases instead of pendingCases
countsInBreakdownAnyStatus(c, key) ==
    /\ Truthy(c.priority)
    /\ trim(toLowerCase(c.priority.s)) = key

\* the forEach over pendingCases increments pendingBreakdown[priority]
countsInBreakdown(c, key) ==
    /\ isPending(c)
    /\ Truthy(c.priority)
    /\ trim(toLowerCase(c.priority.s)) = key

\* filter predicate of validResponseTimes
validResponseTime(c) ==
    /\ Truthy(c.response_time_minutes)
    /\ c.response_time_minutes.t = "num"
    /\ c.response_time_minutes.n > 0

avgResponseTime(cs) ==
    LET cnt == CountIf(cs, validResponseTime)
        sum == SumOf(cs, LAMBDA c : IF validResponseTime(c)
                                     THEN c.response_time_minutes.n ELSE 0)
    IN  IF cnt > 0 THEN RoundDiv(sum, cnt) ELSE 0

\* the try block throws: query error, or a malformed status / priority
calculateThrows(fetchError, cs) ==
    \/ fetchError
    \/ \E i \in 1..Len(cs) : ThrowsOnLower(cs[i].status)
    \/ \E i \in 1..Len(cs) :
          /\ ~ThrowsOnLower(cs[i].status)
          /\ isPending(cs[i])
          /\ ThrowsOnLower(cs[i].priority)

\* an aggregation without the empty branch: cases.length of a missing
\* collection throws, and the catch block reports the error metrics
calculateTeamOverviewUnguarded(fetchError, cs) ==
    IF fetchError \/ Len(cs) = 0 \/ calculateThrows(fetchError, cs)
    THEN ZeroMetrics(TRUE)
    ELSE [total_cases |-> Len(cs),
          total_resolved |-> CountIf(cs, isResolved),
          total_pending |-> CountIf(cs, isPending),
          pending_breakdown |->
              [p \in PriorityKeys |->
                  CountIf(cs, LAMBDA c : countsInBreakdown(c, p))],
          team_avg_response_time |-> avgResponseTime(cs),
          errorPath |-> FALSE]

\* the metrics of the class of dashboard.js: the catch block, the branch for
\* a missing or empty collection, or the aggregation
calculateTeamOverviewManually(fetchError, cs) ==
    IF fetchError THEN ZeroMetrics(TRUE)
    ELSE IF Len(cs) = 0 THEN ZeroMetrics(FALSE)
    ELSE IF calculateThrows(fetchError, cs) THEN ZeroMetrics(TRUE)
    ELSE [total_cases |-> Len(cs),
          total_resolved |-> CountIf(cs, isResolved),
          total_pending |-> CountIf(cs, isPending),
          pending_breakdown |->
              [p \in PriorityKeys |->
                  CountIf(cs, LAMBDA c : countsInBreakdown(c, p))],
          team_avg_response_time |-> avgResponseTime(cs),
          errorPath |-> FALSE]

(***************************************************************************)
(* Team overview as computed by the class in app.js                        *)
(***************************************************************************)
\* resolved filter of app.js: lower-cased, not trimmed
isResolvedApp(c) ==
    Truthy(c.status) /\ toLowerCase(c.status.s) \in RESOLVED_STATUSES

\* pending filter of app.js: a falsy status is not pending either
isPendingApp(c) ==
    Truthy(c.status) /\ toLowerCase(c.status.s) \notin RESOLVED_STATUSES

countsInBreakdownApp(c, key) ==
    /\ isPendingApp(c)
    /\ Truthy(c.priority)
    /\ toLowerCase(c.priority.s) = key

calculateThrowsApp(fetchError, cs) ==
    \/ fetchError
    \/ \E i \in 1..Len(cs) : ThrowsOnLower(cs[i].status)
    \/ \E i \in 1..Len(cs) :
          /\ ~ThrowsOnLower(cs[i].status)
          /\ isPendingApp(cs[i])
          /\ ThrowsOnLower(cs[i].priority)

calculateTeamOverviewManuallyApp(fetchError, cs) ==
    IF fetchError THEN ZeroMetrics(TRUE)
    ELSE IF Len(cs) = 0 THEN ZeroMetrics(FALSE)
    ELSE IF calculateThrowsApp(fetchError, cs) THEN ZeroMetrics(TRUE)
    ELSE [total_cases |-> Len(cs),
          total_resolved |-> CountIf(cs, isResolvedApp),
          total_pending |-> CountIf(cs, isPendingApp),
          pending_breakdown |->
              [p \in PriorityKeys |->
                  CountIf(cs, LAMBDA c : countsInBreakdownApp(c, p))],
          team_avg_response_time |-> avgResponseTime(cs),
          errorPath |-> FALSE]

(***************************************************************************)
(* Inputs of the aggregation: case rows as the data source may return them *)
(***************************************************************************)
MaxCases == 2

StatusSamples ==
    { Null,
      Str(S_resolved),
      Str(<<"C","l","o","s","e","d"," ">>),
      Str(S_new),
      Num(5) }

PrioritySamples ==
    { Null,
      Str(S_vip),
      Str(<<" ","U","r","g","e","n","t">>),
      Str(<<"h","i","g","h">>),
      Num(7) }

ResponseTimeSamples == { Num(45) }

\* every status with every priority, and rows that carry a response time
CaseSamples ==
    [status : StatusSamples, priority : PrioritySamples,
     response_time_minutes : {Null}]
    \cup [status : {Str(S_new)}, priority : {Str(S_vip)},
          response_time_minutes : ResponseTimeSamples]

Collections == UNION { [1..n -> CaseSamples] : n \in 0..MaxCases }

NoMetrics == [ready |-> FALSE, m |-> ZeroMetrics(FALSE)]

\* one refresh of the team overview by the class of dashboard.js
calculateDashboard(fetchError) ==
    /\ metrics' = [ready |-> TRUE,
                   m |-> calculateTeamOverviewManually(fetchError, cases)]
    /\ UNCHANGED <<cases, metricsApp>>
    /\ UNCHANGED <<coordVars, effVars, slaVars, chartVars, perfVars>>
    /\ UNCHANGED <<lifeVars, listVars, passVars, anaVars>>

\* one refresh of the team overview by the class of app.js
calculateApp(fetchError) ==
    /\ metricsApp' = [ready |-> TRUE,
                      m |-> calculateTeamOverviewManuallyApp(fetchError, cases)]
    /\ UNCHANGED <<cases, metrics>>
    /\ UNCHANGED <<coordVars, effVars, slaVars, chartVars, perfVars>>
    /\ UNCHANGED <<lifeVars, listVars, passVars, anaVars>>

BreakdownSum(m) ==
    m.pending_breakdown[S_vip] + m.pending_breakdown[S_urgent]
    + m.pending_breakdown[S_normal] + m.pending_breakdown[S_low]

(***************************************************************************)
(* Agent efficiency label: calculateAgentEfficiency                        *)
(***************************************************************************)
\* x || 0 for a number or null
OrZero(v) == IF Truthy(v) THEN v.n ELSE 0

L_none == ""
L_high == "High Performer"
L_good == "Good"
L_needs == "Needs Support"

\* rules whose 'Good' branch also asks for at most 8 pending cases
efficiencyRulesPendingCap(status, resolvedToday, avgTime, pendingCases) ==
    IF status = Str(S_offline) THEN L_none
    ELSE IF resolvedToday >= 5 /\ avgTime <= 60 /\ pendingCases <= 3
         THEN L_high
    ELSE IF (resolvedToday >= 3 /\ pendingCases <= 8)
            \/ (avgTime <= 120 /\ pendingCases <= 5)
         THEN L_good
    ELSE IF pendingCases > 8 \/ avgTime > 180
         THEN L_needs
    ELSE L_none

efficiencyRules(status, resolvedToday, avgTime, pendingCases) ==
    IF status = Str(S_offline) THEN L_none
    ELSE IF resolvedToday >= 5 /\ avgTime <= 60 /\ pendingCases <= 3
         THEN L_high
    ELSE IF resolvedToday >= 3 \/ (avgTime <= 120 /\ pendingCases <= 5)
         THEN L_good
    ELSE IF pendingCases > 8 \/ avgTime > 180
         THEN L_needs
    ELSE L_none

\* the same rules with the last two tried in the other order
calculateAgentEfficiencySwapped(a) ==
    LET resolvedToday == OrZero(a.resolved_today)
        avgTime == OrZero(a.avg_response_time)
        pendingCases == OrZero(a.pending_cases)
    IN  IF a.status = Str(S_offline) THEN L_none
        ELSE IF resolvedToday >= 5 /\ avgTime <= 60 /\ pendingCases <= 3
             THEN L_high
        ELSE IF pendingCases > 8 \/ avgTime > 180
             THEN L_needs
        ELSE IF resolvedToday >= 3 \/ (avgTime <= 120 /\ pendingCases <= 5)
             THEN L_good
        ELSE L_none

\* the class method (dashboard.js): reads agent.avg_response_time
calculateAgentEfficiency(a) ==
    efficiencyRules(a.status, OrZero(a.resolved_today),
                    OrZero(a.avg_response_time), OrZero(a.pending_cases))

\* the prototype method (dashboard.js): reads agent.avg_response_time_today
calculateAgentEfficiencyProto(a) ==
    efficiencyRules(a.status, OrZero(a.resolved_today),
                    OrZero(a.avg_response_time_today),
                    OrZero(a.pending_cases))

S_available == <<"a","v","a","i","l","a","b","l","e">>

AgentStatusSamples == {Str(S_offline), Str(S_available)}
ResolvedTodaySamples == {0, 2, 3, 5}
AvgSamples == {Null, Num(45), Num(60), Num(61), Num(120), Num(121),
               Num(180), Num(181)}
PendingSamples == {0, 2, 3, 4, 5, 6, 8, 9}

\* a performance record; each calculator stores its average under the name
\* its own calculateAgentEfficiency reads
AgentRecord(st, r, avg, p) ==
    [status |-> st, resolved_today |-> Num(r), pending_cases |-> Num(p),
     avg_response_time |-> avg, avg_response_time_today |-> avg]

NoAgent == AgentRecord(Str(S_offline), 0, Null, 0)
NoLabel == [ready |-> FALSE, label |-> L_none]

\* createAgentCard of the class calls this.calculateAgentEfficiency(agent)
createAgentCard ==
    /\ efficiency' = [ready |-> TRUE, label |-> calculateAgentEfficiency(agent)]
    /\ UNCHANGED <<agent, efficiencyProto>>
    /\ UNCHANGED <<coordVars, aggVars, slaVars, chartVars, perfVars>>
    /\ UNCHANGED <<lifeVars, listVars, passVars, anaVars>>

\* createAgentCard of the prototype
createAgentCardProto ==
    /\ efficiencyProto' =
          [ready |-> TRUE, label |-> calculateAgentEfficiencyProto(agent)]
    /\ UNCHANGED <<agent, efficiency>>
    /\ UNCHANGED <<coordVars, aggVars, slaVars, chartVars, perfVars>>
    /\ UNCHANGED <<lifeVars, listVars, passVars, anaVars>>

(***************************************************************************)
(* SLA evaluation: isCaseOverdue                                           *)
(***************************************************************************)
MsPerHour == 3600000

\* const slaHours = { vip: 4, urgent: 8, normal: 24, low: 48 }
slaHours ==
    [p \in PriorityKeys |->
        CASE p = S_vip -> 4 [] p = S_urgent -> 8
          [] p = S_normal -> 24 [] p = S_low -> 48]

\* slaHours[case_item.priority] || 24
maxHours(priority) ==
    IF priority.t = "str" /\ priority.s \in PriorityKeys
    THEN slaHours[priority.s]
    ELSE 24

\* an evaluation that also flags a case aged exactly its budget
isCaseOverdueAtBudget(c, openMs) ==
    IF c.status = Str(S_resolved) \/ c.status = Str(S_closed) THEN FALSE
    ELSE openMs >= maxHours(c.priority) * MsPerHour

\* SupportPortalApp.isCaseOverdue; openMs is now - created
isCaseOverdue(c, openMs) ==
    IF c.status = Str(S_resolved) \/ c.status = Str(S_closed) THEN FALSE
    ELSE openMs > maxHours(c.priority) * MsPerHour

\* isCaseOverdue of cases.js
isCaseOverdueCases(c, openMs) ==
    IF c.status.t = "str" /\ c.status.s \in {S_resolved, S_closed} THEN FALSE
    ELSE openMs > maxHours(c.priority) * MsPerHour

S_in_progress == <<"i","n","_","p","r","o","g","r","e","s","s">>

SlaStatusSamples ==
    {Null, Str(S_resolved), Str(S_closed), Str(S_new), Str(S_in_progress)}
SlaPrioritySamples ==
    {Null, Str(S_vip), Str(S_urgent), Str(S_normal), Str(S_low),
     Str(<<"V","I","P">>), Str(<<"h","i","g","h">>)}
\* ages around each budget, and the 5 hours and 100 hours of the examples
OpenMsSamples ==
    {h * MsPerHour + d : h \in {4, 8, 24, 48}, d \in {-1, 0, 1}}
    \cup {0, 5 * MsPerHour, 100 * MsPerHour}

NoCase == [status |-> Null, priority |-> Null]
NoVerdict == [ready |-> FALSE, v |-> FALSE]

\* createCaseRow: const isOverdue = this.isCaseOverdue(case_item)
createCaseRow ==
    /\ overdue' = [ready |-> TRUE, v |-> isCaseOverdue(case_item, hoursOpenMs)]
    /\ UNCHANGED <<case_item, hoursOpenMs, overdueCases>>
    /\ UNCHANGED <<coordVars, aggVars, effVars, chartVars, perfVars>>
    /\ UNCHANGED <<lifeVars, listVars, passVars, anaVars>>

\* createDetailedCaseRow (cases.js): const isOverdue = isCaseOverdue(case_item)
createDetailedCaseRow ==
    /\ overdueCases' =
          [ready |-> TRUE, v |-> isCaseOverdueCases(case_item, hoursOpenMs)]
    /\ UNCHANGED <<case_item, hoursOpenMs, overdue>>
    /\ UNCHANGED <<coordVars, aggVars, effVars, chartVars, perfVars>>
    /\ UNCHANGED <<lifeVars, listVars, passVars, anaVars>>

(***************************************************************************)
(* Time-series charts: createCasesTimelineChart (dashboard.js),            *)
(* createVolumeChart and createTATTrendsChart (analytics.js).              *)
(* A timestamp is a number of hours; its ISO date portion is the number of *)
(* whole days in it.                                                       *)
(***************************************************************************)
HoursPerDay == 24

TimelineDays == 7    \* for (let i = 0; i < 7; i++)
ChartDays == 30      \* for (let i = 0; i < 30; i++)

\* a timestamp value of a row, and the absent one
Stamp(h) == [t |-> "str", at |-> h]
NoStamp == [t |-> "null", at |-> 0]

\* date.toISOString().split('T')[0], and the date portion of a row's timestamp
DateStr(h) == h \div HoursPerDay

\* startDate.setDate(startDate.getDate() - (n - 1))
startDate(end, n) == end - (n - 1) * HoursPerDay

\* the date string of bucket i (0-based): startDate plus i days
bucketDate(end, n, i) == DateStr(startDate(end, n) + i * HoursPerDay)

\* .gte('created_at', startDate.toISOString()): the rows the query returns
\* (their order does not enter any count or sum)
recentCases(src, end, n) ==
    SelectSeq(src, LAMBDA c : c.created_at.at >= startDate(end, n))

\* a case counted from its creation day onwards
createdUpTo(c, date) == DateStr(c.created_at.at) <= date

\* c.created_at.startsWith(dateStr) / dailyData[created_at.split('T')[0]]
createdOn(c, date) == DateStr(c.created_at.at) = date

\* c.resolved_at && c.resolved_at.startsWith(dateStr)
resolvedOn(c, date) ==
    c.resolved_at.t # "null" /\ DateStr(c.resolved_at.at) = date

\* an average that may have no value: a fraction n / d, or null
NoValue == [t |-> "null", n |-> 0, d |-> 1]
Mean(sum, cnt) == [t |-> "num", n |-> sum, d |-> cnt]

\* the per-bucket counts of created and resolved cases
bucketCounts(src, end, n) ==
    LET cs == recentCases(src, end, n)
    IN  [ready |-> TRUE,
         created |-> [i \in 1..n |->
             CountIf(cs, LAMBDA c : createdOn(c, bucketDate(end, n, i - 1)))],
         resolved |-> [i \in 1..n |->
             CountIf(cs, LAMBDA c : resolvedOn(c, bucketDate(end, n, i - 1)))]]

\* if (case_item.response_time_minutes) response_times.push(...)
pushedDuration(v) == Truthy(v)

\* a day's average: sum / length of the pushed values, or null
dayAverage(cs, date, field) ==
    LET pushed(c) == createdOn(c, date) /\ pushedDuration(c[field])
        cnt == CountIf(cs, pushed)
        sum == SumOf(cs, LAMBDA c : IF pushed(c) THEN c[field].n ELSE 0)
    IN  IF cnt > 0 THEN Mean(sum, cnt) ELSE NoValue

\* the per-day series of createTATTrendsChart
tatSeries(src, end, n) ==
    LET cs == recentCases(src, end, n)
    IN  [ready |-> TRUE,
         count |-> [i \in 1..n |->
             CountIf(cs, LAMBDA c : createdOn(c, bucketDate(end, n, i - 1)))],
         avgResponse |-> [i \in 1..n |->
             dayAverage(cs, bucketDate(end, n, i - 1),
                        "response_time_minutes")],
         avgResolution |-> [i \in 1..n |->
             dayAverage(cs, bucketDate(end, n, i - 1),
                        "resolution_time_minutes")]]

NoChart == [ready |-> FALSE, created |-> <<>>, resolved |-> <<>>]
NoSeries ==
    [ready |-> FALSE, count |-> <<>>, avgResponse |-> <<>>,
     avgResolution |-> <<>>]

\* createCasesTimelineChart: a failed query leaves the chart as it was
createCasesTimelineChart(fetchError) ==
    /\ casesTimeline' = IF fetchError THEN casesTimeline
                        ELSE bucketCounts(chartCases, endDate, TimelineDays)
    /\ UNCHANGED <<endDate, chartCases, volume, tatTrends>>
    /\ UNCHANGED <<coordVars, aggVars, effVars, slaVars, perfVars>>
    /\ UNCHANGED <<lifeVars, listVars, passVars, anaVars>>

\* createVolumeChart: skipped when the chart exists
createVolumeChart(fetchError) ==
    /\ volume' = IF volume.ready \/ fetchError THEN volume
                 ELSE bucketCounts(chartCases, endDate, ChartDays)
    /\ UNCHANGED <<endDate, chartCases, casesTimeline, tatTrends>>
    /\ UNCHANGED <<coordVars, aggVars, effVars, slaVars, perfVars>>
    /\ UNCHANGED <<lifeVars, listVars, passVars, anaVars>>

\* createTATTrendsChart: skipped when the chart exists
createTATTrendsChart(fetchError) ==
    /\ tatTrends' = IF tatTrends.ready \/ fetchError THEN tatTrends
                    ELSE tatSeries(chartCases, endDate, ChartDays)
    /\ UNCHANGED <<endDate, chartCases, casesTimeline, volume>>
    /\ UNCHANGED <<coordVars, aggVars, effVars, slaVars, perfVars>>
    /\ UNCHANGED <<lifeVars, listVars, passVars, anaVars>>

\* the day a chart is built on, late enough for every window to start at day 1
Today == TimelineDays + ChartDays
At(day, hour) == day * HoursPerDay + hour

EndDateSamples == {At(Today, 2), At(Today, 12)}

\* creation and resolution times: the day before the 30-day window, the
\* first day of each window before and after the time of day charts are
\* built at, today, and tomorrow by the data source's clock
ChartStampSamples ==
    { <<At(Today - ChartDays, 23), NoStamp>>,
      <<At(Today - ChartDays, 23), Stamp(At(Today, 1))>>,
      <<At(Today - ChartDays + 1, 1), NoStamp>>,
      <<At(Today - ChartDays + 1, 1), Stamp(At(Today, 1))>>,
      <<At(Today - TimelineDays + 1, 1), NoStamp>>,
      <<At(Today - TimelineDays + 1, 1), Stamp(At(Today, 1))>>,
      <<At(Today - TimelineDays + 1, 23), NoStamp>>,
      <<At(Today - TimelineDays + 1, 23), Stamp(At(Today, 1))>>,
      <<At(Today, 1), NoStamp>>,
      <<At(Today, 1), Stamp(At(Today, 1))>>,
      <<At(Today, 1), Stamp(At(Today + 1, 1))>>,
      <<At(Today + 1, 1), NoStamp>>,
      <<At(Today + 1, 1), Stamp(At(Today + 1, 1))>> }

DurationSamples == {Num(0), Num(0 - 5), Num(30), Num(45)}

ChartRow(created, resolved, response, resolution) ==
    [created_at |-> Stamp(created), resolved_at |-> resolved,
     response_time_minutes |-> response,
     resolution_time_minutes |-> resolution]

\* rows with every pair of timestamps, and rows of today with a duration
ChartCaseSamples ==
    {ChartRow(p[1], p[2], Null, Null) : p \in ChartStampSamples}
    \cup {ChartRow(At(Today, 1), NoStamp, d, Null) : d \in DurationSamples}
    \cup {ChartRow(At(Today, 1), Stamp(At(Today, 1)), Null, d) :
             d \in {Num(0 - 5), Num(60)}}

ChartIdle ==
    /\ endDate = At(Today, 12)
    /\ chartCases = <<>>
    /\ casesTimeline = NoChart
    /\ volume = NoChart
    /\ tatTrends = NoSeries

(***************************************************************************)
(* Per-agent aggregation: calculateAgentPerformanceManually (class and     *)
(* prototype, dashboard.js), createAgentPerformanceChart and               *)
(* createAgentDetailCard (analytics.js)                                    *)
(***************************************************************************)
AgentIds == {1, 2}

\* cases.filter(c => c.agent_id === agent.id)
agentCases(rows, a) == SelectSeq(rows, LAMBDA c : c.agent_id = a)

\* ['resolved', 'closed'].includes(c.status)
statusResolvedOrClosed(c) == c.status \in {Str(S_resolved), Str(S_closed)}

\* c.status === 'resolved'
statusResolved(c) == c.status = Str(S_resolved)

\* c.resolved_at && c.resolved_at.startsWith(today)
resolvedToday(c, today) ==
    c.resolved_at.t # "null" /\ DateStr(c.resolved_at.at) = today

\* c.response_time_minutes && c.response_time_minutes > 0
positiveResponseTime(c) ==
    Truthy(c.response_time_minutes) /\ c.response_time_minutes.n > 0

\* filter(c => c.response_time_minutes)
truthyResponseTime(c) == Truthy(c.response_time_minutes)

\* sum / length over the rows that pass the filter, or the empty value
meanResponseTime(cs, P(_), empty) ==
    LET cnt == CountIf(cs, P)
        sum == SumOf(cs, LAMBDA c : IF P(c) THEN c.response_time_minutes.n
                                    ELSE 0)
    IN  IF cnt > 0 THEN Mean(sum, cnt) ELSE empty

\* Math.round(x) for a fraction n / d with d > 0
roundMean(v) ==
    IF v.t = "null" THEN v ELSE Mean((2 * v.n + v.d) \div (2 * v.d), 1)

\* the record the class method returns for one agent
agentRecord(rows, a, today) ==
    LET cs == agentCases(rows, a)
    IN  [resolved_today |->
             CountIf(cs, LAMBDA c : statusResolvedOrClosed(c)
                                    /\ resolvedToday(c, today)),
         total_resolved |-> CountIf(cs, statusResolvedOrClosed),
         total_cases |-> Len(cs),
         pending_cases |-> CountIf(cs, LAMBDA c : ~statusResolvedOrClosed(c)),
         avg_response_time |->
             meanResponseTime(cs, positiveResponseTime, NoValue)]

\* the record the prototype method returns for one agent: the average is
\* taken over the cases resolved today
agentRecordProto(rows, a, today) ==
    LET cs == agentCases(rows, a)
        todayCases == SelectSeq(cs, LAMBDA c : statusResolvedOrClosed(c)
                                               /\ resolvedToday(c, today))
    IN  [resolved_today |-> Len(todayCases),
         pending_cases |-> CountIf(cs, LAMBDA c : ~statusResolvedOrClosed(c)),
         avg_response_time_today |->
             meanResponseTime(todayCases, truthyResponseTime, NoValue)]

\* the metrics createAgentPerformanceChart plots for one agent
agentMetrics(rows, a) ==
    LET cs == agentCases(rows, a)
        totalResolved == CountIf(cs, statusResolved)
    IN  [totalCases |-> Len(cs),
         totalResolved |-> totalResolved,
         resolutionRate |-> IF Len(cs) > 0
                            THEN Mean(totalResolved * 100, Len(cs))
                            ELSE Mean(0, 1),
         avgResponseTime |->
             meanResponseTime(cs, truthyResponseTime, Mean(0, 1))]

\* the metrics createAgentDetailCard shows for one agent
agentDetail(cs, today) ==
    LET resolvedCases == CountIf(cs, statusResolved)
    IN  [totalCases |-> Len(cs),
         resolvedCases |-> resolvedCases,
         pendingCases |-> CountIf(cs, LAMBDA c : ~statusResolvedOrClosed(c)),
         todayResolved |->
             CountIf(cs, LAMBDA c : statusResolved(c)
                                    /\ resolvedToday(c, today)),
         avgResponseTime |->
             roundMean(meanResponseTime(cs, truthyResponseTime, NoValue)),
         resolutionRate |-> IF Len(cs) > 0
                            THEN roundMean(Mean(resolvedCases * 100, Len(cs)))
                            ELSE Mean(0, 1)]

NoRecords == [ready |-> FALSE, records |-> <<>>]

\* calculateAgentPerformanceManually of the class: a failed query returns []
calculateAgentPerformanceManually(fetchError) ==
    /\ performance' =
          [ready |-> TRUE,
           records |-> IF fetchError THEN <<>>
                       ELSE [a \in AgentIds |->
                                agentRecord(agentRows, a, DateStr(endDate))]]
    /\ UNCHANGED <<agentRows, performanceProto, agentPerformance,
                   agentDetailCard>>
    /\ UNCHANGED <<coordVars, aggVars, effVars, slaVars, chartVars>>
    /\ UNCHANGED <<lifeVars, listVars, passVars, anaVars>>

\* calculateAgentPerformanceManually of the prototype
calculateAgentPerformanceManuallyProto(fetchError) ==
    /\ performanceProto' =
          [ready |-> TRUE,
           records |-> IF fetchError THEN <<>>
                       ELSE [a \in AgentIds |->
                                agentRecordProto(agentRows, a,
                                                 DateStr(endDate))]]
    /\ UNCHANGED <<agentRows, performance, agentPerformance, agentDetailCard>>
    /\ UNCHANGED <<coordVars, aggVars, effVars, slaVars, chartVars>>
    /\ UNCHANGED <<lifeVars, listVars, passVars, anaVars>>

\* createAgentPerformanceChart: skipped when the chart exists; a failed
\* query leaves no chart
createAgentPerformanceChart(fetchError) ==
    /\ agentPerformance' =
          IF agentPerformance.ready \/ fetchError THEN agentPerformance
          ELSE [ready |-> TRUE,
                records |-> [a \in AgentIds |-> agentMetrics(agentRows, a)]]
    /\ UNCHANGED <<agentRows, performance, performanceProto, agentDetailCard>>
    /\ UNCHANGED <<coordVars, aggVars, effVars, slaVars, chartVars>>
    /\ UNCHANGED <<lifeVars, listVars, passVars, anaVars>>

\* loadAgentsSection: one card per agent; when only the cases query fails
\* every card is built from no cases
loadAgentsSection(agentsError, casesError) ==
    /\ agentDetailCard' =
          [ready |-> TRUE,
           records |->
               IF agentsError THEN <<>>
               ELSE [a \in AgentIds |->
                        agentDetail(IF casesError THEN <<>>
                                    ELSE agentCases(agentRows, a),
                                    DateStr(endDate))]]
    /\ UNCHANGED <<agentRows, performance, performanceProto, agentPerformance>>
    /\ UNCHANGED <<coordVars, aggVars, effVars, slaVars, chartVars>>
    /\ UNCHANGED <<lifeVars, listVars, passVars, anaVars>>

\* destroyAllCharts: every chart of app.charts is destroyed, app.charts = {}
destroyAllCharts ==
    /\ chartsTimeline' = FALSE
    /\ casesTimeline' = NoChart
    /\ volume' = NoChart
    /\ tatTrends' = NoSeries
    /\ agentPerformance' = NoRecords
    /\ UNCHANGED <<isLoading, refreshInterval, listeners, subscribed, phase,
                   destroyed, cycles, standalone, lastDone>>
    /\ UNCHANGED <<endDate, chartCases>>
    /\ UNCHANGED <<agentRows, performance, performanceProto, agentDetailCard>>
    /\ UNCHANGED <<aggVars, effVars, slaVars>>
    /\ UNCHANGED <<lifeVars, listVars, passVars, anaVars>>

AgentRow(a, st, resolved, rt) ==
    [agent_id |-> a, status |-> st, resolved_at |-> resolved,
     response_time_minutes |-> rt]

\* open, resolved today, resolved yesterday and closed today
AgentStateSamples ==
    { <<Str(S_new), NoStamp>>,
      <<Str(S_resolved), Stamp(At(Today, 1))>>,
      <<Str(S_resolved), Stamp(At(Today - 1, 1))>>,
      <<Str(S_closed), Stamp(At(Today, 1))>> }

AgentRowSamples ==
    {AgentRow(1, p[1], p[2], rt) :
        p \in AgentStateSamples, rt \in {Null, Num(0 - 5), Num(30)}}
    \cup { AgentRow(1, Str(S_new), NoStamp, Num(0)),
           AgentRow(1, Str(S_new), NoStamp, Num(45)),
           AgentRow(1, Null, NoStamp, Null),
           AgentRow(2, Str(S_resolved), Stamp(At(Today, 1)), Num(45)) }

PerfIdle ==
    /\ agentRows = <<>>
    /\ performance = NoRecords
    /\ performanceProto = NoRecords
    /\ agentPerformance = NoRecords
    /\ agentDetailCard = NoRecords

(***************************************************************************)
(* Case status updates: updateCaseStatus, quickUpdateStatus, escalateCase  *)
(* (cases.js) on one case of the data source. The table row and the modal  *)
(* keep the status they were rendered from until they are rendered again.  *)
(***************************************************************************)
S_assigned == <<"a","s","s","i","g","n","e","d">>
S_pending_customer ==
    <<"p","e","n","d","i","n","g","_","c","u","s","t","o","m","e","r">>
S_escalated == <<"e","s","c","a","l","a","t","e","d">>

MaxClock == 2   \* ticks of the wall clock

\* a table that closes a case in progress without resolving it
nextStatusSkipsResolved ==
    [s \in {S_new, S_assigned, S_in_progress, S_pending_customer, S_resolved}
        |-> CASE s = S_new -> S_assigned
              [] s = S_assigned -> S_in_progress
              [] s = S_in_progress -> S_closed
              [] s = S_pending_customer -> S_in_progress
              [] s = S_resolved -> S_closed]

\* a table that reopens a resolved case
nextStatusReopens ==
    [s \in {S_new, S_assigned, S_in_progress, S_pending_customer, S_resolved}
        |-> CASE s = S_new -> S_assigned
              [] s = S_assigned -> S_in_progress
              [] s = S_in_progress -> S_resolved
              [] s = S_pending_customer -> S_in_progress
              [] s = S_resolved -> S_new]

\* const nextStatus = { new: 'assigned', ... } of quickUpdateStatus
nextStatus ==
    [s \in {S_new, S_assigned, S_in_progress, S_pending_customer, S_resolved}
        |-> CASE s = S_new -> S_assigned
              [] s = S_assigned -> S_in_progress
              [] s = S_in_progress -> S_resolved
              [] s = S_pending_customer -> S_in_progress
              [] s = S_resolved -> S_closed]

\* the updates object of updateCaseStatus, built at time t
updates(newStatus, t) ==
    IF newStatus = S_resolved
    THEN [status |-> newStatus, resolved_at |-> Stamp(t)]
    ELSE IF newStatus = S_in_progress
    THEN [status |-> newStatus, first_response_at |-> Stamp(t)]
    ELSE [status |-> newStatus]

\* the updates object of escalateCase, from the priority it has read
escalateUpdates(priority) ==
    [status |-> S_escalated,
     priority |-> IF priority = Str(S_vip) THEN Str(S_vip) ELSE Str(S_urgent)]

\* .from('cases').update(updates).eq('id', caseId): the named columns change
update(row, u) == u @@ row

NotRendered == [rendered |-> FALSE, status |-> <<>>]
RenderedFrom(row) == [rendered |-> TRUE, status |-> row.status]
NoUpdates == [written |-> FALSE, by |-> "none", before |-> <<>>,
              status |-> <<>>]

\* updateCaseStatus(caseId, newStatus) called by the handler `by`: a failed
\* update changes nothing; a successful one closes the modal
updateCaseStatusBy(by, newStatus, updateError) ==
    IF updateError
    THEN UNCHANGED <<caseRow, modalStatus, lastUpdates>>
    ELSE /\ caseRow' = update(caseRow, updates(newStatus, clock))
         /\ modalStatus' = NotRendered
         /\ lastUpdates' = [written |-> TRUE, by |-> by,
                            before |-> caseRow.status, status |-> newStatus]

\* loadCasesTable -> createDetailedCaseRow: the row is rendered again
loadCasesTable ==
    /\ rowStatus' = RenderedFrom(caseRow)
    /\ UNCHANGED <<caseRow, modalStatus, clock, lastUpdates>>
    /\ UNCHANGED <<coordVars, aggVars, effVars, slaVars, chartVars, perfVars>>
    /\ UNCHANGED <<listVars, passVars, anaVars>>

\* openCaseModal -> renderCaseModal -> renderCaseActions(caseData)
openCaseModal ==
    /\ modalStatus' = RenderedFrom(caseRow)
    /\ UNCHANGED <<caseRow, rowStatus, clock, lastUpdates>>
    /\ UNCHANGED <<coordVars, aggVars, effVars, slaVars, chartVars, perfVars>>
    /\ UNCHANGED <<listVars, passVars, anaVars>>

\* the row's quick-update button: quickUpdateStatus(id, status of the row)
quickUpdateStatus(updateError) ==
    /\ rowStatus.rendered
    /\ IF rowStatus.status \in DOMAIN nextStatus
       THEN updateCaseStatusBy("quick", nextStatus[rowStatus.status],
                               updateError)
       ELSE UNCHANGED <<caseRow, modalStatus, lastUpdates>>
    /\ UNCHANGED <<rowStatus, clock>>
    /\ UNCHANGED <<coordVars, aggVars, effVars, slaVars, chartVars, perfVars>>
    /\ UNCHANGED <<listVars, passVars, anaVars>>

\* the modal's Start Working button, shown when caseData.status === 'new'
startWorking(updateError) ==
    /\ modalStatus.rendered
    /\ modalStatus.status = S_new
    /\ updateCaseStatusBy("modal", S_in_progress, updateError)
    /\ UNCHANGED <<rowStatus, clock>>
    /\ UNCHANGED <<coordVars, aggVars, effVars, slaVars, chartVars, perfVars>>
    /\ UNCHANGED <<listVars, passVars, anaVars>>

\* the modal's Mark Resolved button, shown for new, assigned, in_progress
markResolved(updateError) ==
    /\ modalStatus.rendered
    /\ modalStatus.status \in {S_new, S_assigned, S_in_progress}
    /\ updateCaseStatusBy("modal", S_resolved, updateError)
    /\ UNCHANGED <<rowStatus, clock>>
    /\ UNCHANGED <<coordVars, aggVars, effVars, slaVars, chartVars, perfVars>>
    /\ UNCHANGED <<listVars, passVars, anaVars>>

\* the modal's Escalate button, shown when caseData.status !== 'resolved':
\* confirm, read the priority, update status and priority
escalateCase(confirmed, getError, updateError) ==
    /\ modalStatus.rendered
    /\ modalStatus.status # S_resolved
    /\ IF confirmed /\ ~getError /\ ~updateError
       THEN /\ caseRow' = update(caseRow, escalateUpdates(caseRow.priority))
            /\ modalStatus' = NotRendered
            /\ lastUpdates' = [written |-> TRUE, by |-> "escalate",
                               before |-> caseRow.status,
                               status |-> S_escalated]
       ELSE UNCHANGED <<caseRow, modalStatus, lastUpdates>>
    /\ UNCHANGED <<rowStatus, clock>>
    /\ UNCHANGED <<coordVars, aggVars, effVars, slaVars, chartVars, perfVars>>
    /\ UNCHANGED <<listVars, passVars, anaVars>>

\* time passes between two clicks
Tick ==
    /\ clock < MaxClock
    /\ clock' = clock + 1
    /\ UNCHANGED <<caseRow, rowStatus, modalStatus, lastUpdates>>
    /\ UNCHANGED <<coordVars, aggVars, effVars, slaVars, chartVars, perfVars>>
    /\ UNCHANGED <<listVars, passVars, anaVars>>

LifeStatuses ==
    {S_new, S_assigned, S_in_progress, S_pending_customer, S_escalated,
     S_resolved, S_closed}

\* the rows the table may hold before any click: a resolved or closed case
\* carries its resolved_at, a case that was never resolved carries none, and
\* a case that was never in progress carries no first_response_at
CaseRowSamples ==
    {r \in [status : LifeStatuses, priority : {Str(S_vip), Str(S_normal)},
            resolved_at : {NoStamp, Stamp(0)},
            first_response_at : {NoStamp, Stamp(0)}] :
        /\ r.status \in {S_resolved, S_closed} => r.resolved_at # NoStamp
        /\ r.status \in {S_new, S_assigned, S_in_progress, S_pending_customer}
              => r.resolved_at = NoStamp
        /\ r.status \in {S_new, S_assigned} => r.first_response_at = NoStamp}

LifeIdle ==
    /\ caseRow = [status |-> S_new, priority |-> Str(S_normal),
                  resolved_at |-> NoStamp, first_response_at |-> NoStamp]
    /\ rowStatus = NotRendered
    /\ modalStatus = NotRendered
    /\ clock = 1
    /\ lastUpdates = NoUpdates

(***************************************************************************)
(* Agent list section: loadAgentPerformance (dashboard.js)                 *)
(***************************************************************************)
\* what calculateAgentPerformanceManually returns to loadAgentPerformance:
\* its catch block turns a failed agents or cases query into []
performanceOrEmpty(agentsError, casesError, table, rows, today) ==
    IF agentsError \/ casesError THEN <<>>
    ELSE [a \in table |-> agentRecord(rows, a, today)]

\* the branch of loadAgentPerformance taken for the returned array
agentListMessage(agents) ==
    IF DOMAIN agents = {} THEN "No agents found" ELSE "cards"

NoAgentList == [shown |-> "nothing", cards |-> <<>>, fetchFailed |-> FALSE]

\* one refresh of the agent list; fetchFailed records the outcome of the
\* two queries
loadAgentPerformanceSection(agentsError, casesError) ==
    /\ LET agents == performanceOrEmpty(agentsError, casesError, agentsTable,
                                        agentRows, DateStr(endDate))
       IN  agentList' = [shown |-> agentListMessage(agents),
                         cards |-> agents,
                         fetchFailed |-> agentsError \/ casesError]
    /\ UNCHANGED agentsTable
    /\ UNCHANGED <<coordVars, aggVars, effVars, slaVars, chartVars, perfVars>>
    /\ UNCHANGED <<lifeVars, passVars, anaVars>>

ListIdle ==
    /\ agentsTable = AgentIds
    /\ agentList = NoAgentList

(***************************************************************************)
(* One pass of loadRecentCases over its rows: cases.forEach(createCaseRow) *)
(* where every isCaseOverdue call reads new Date() itself                  *)
(***************************************************************************)
PassRowSamples ==
    [status : {Str(S_new), Str(S_resolved)},
     priority : {Str(S_vip), Str(S_normal)},
     created_at : {0, MsPerHour}]

\* readings of the clock around the vip and the normal budget
PassClockSamples ==
    {h * MsPerHour + d : h \in {4, 5, 24, 25}, d \in {0 - 1, 0, 1}}

\* the next row of the pass is rendered: isCaseOverdue(case_item) with the
\* clock as it reads now
forEachCreateCaseRow ==
    /\ Len(passFlags) < Len(passCases)
    /\ LET c == passCases[Len(passFlags) + 1]
       IN  passFlags' = Append(passFlags,
                               isCaseOverdue(c, passNow - c.created_at))
    /\ UNCHANGED <<passCases, passNow>>
    /\ UNCHANGED <<coordVars, aggVars, effVars, slaVars, chartVars, perfVars>>
    /\ UNCHANGED <<lifeVars, listVars, anaVars>>

\* a millisecond passes
ClockAdvances ==
    /\ passNow + 1 \in PassClockSamples
    /\ passNow' = passNow + 1
    /\ UNCHANGED <<passCases, passFlags>>
    /\ UNCHANGED <<coordVars, aggVars, effVars, slaVars, chartVars, perfVars>>
    /\ UNCHANGED <<lifeVars, listVars, anaVars>>

PassIdle ==
    /\ passCases = <<>>
    /\ passNow = 0
    /\ passFlags = <<>>

(***************************************************************************)
(* Analytics section: loadAnalyticsSection (analytics.js). analyticsCharts *)
(* holds the keys of app.charts the section creates, in creation order;    *)
(* what each chart plots is modelled with the charts above.                *)
(***************************************************************************)
MaxRuns == 2   \* loadAnalyticsSection invocations that could be in flight

\* createTATTrendsChart, createVolumeChart, createPriorityDistributionChart,
\* createAgentPerformanceChart, by the key each one stores its chart under
ChartOrder == <<"tatTrends", "volume", "priority", "agentPerformance">>

RunSlots == 1..MaxRuns
IdleRun == [active |-> FALSE, chart |-> 0, awaiting |-> "none",
            skip |-> FALSE]
NoCall == [last |-> "none", flip |-> FALSE]

\* app.charts.<key> && app.charts.<key>.data
hasChart(charts, key) == \E i \in 1..Len(charts) : charts[i] = key

\* an entry check that lets every call through
analyticsGuardOpen(loading) == FALSE

\* if (analyticsLoading) return
analyticsGuard(loading) == loading

\* the i-th chart function has been called: it returns at once when its
\* chart exists, otherwise it awaits its query
calledChart(i, charts) ==
    [active |-> TRUE, chart |-> i, awaiting |-> "query",
     skip |-> hasChart(charts, ChartOrder[i])]

RunsInFlight == {k \in RunSlots : analyticsRuns[k].active}
FreeRuns == RunSlots \ RunsInFlight
LowestFreeRun == CHOOSE k \in FreeRuns : \A j \in FreeRuns : k <= j

\* loadAnalyticsSection up to its first await. destroyAllCharts empties
\* app.charts and then walks window.Chart.instances, which throws when the
\* charting library does not keep them in an array (cleanupThrows); the
\* catch and finally blocks then end the call.
loadAnalyticsSection(cleanupThrows) ==
    /\ IF analyticsGuard(analyticsLoading)
       THEN /\ analyticsLog' = [last |-> "skipped",
                                flip |-> ~analyticsLog.flip]
            /\ UNCHANGED <<analyticsLoading, analyticsRuns, analyticsCharts>>
       ELSE IF cleanupThrows
       THEN /\ analyticsCharts' = <<>>
            /\ analyticsLoading' = FALSE
            /\ analyticsLog' = [last |-> "failed",
                                flip |-> ~analyticsLog.flip]
            /\ UNCHANGED analyticsRuns
       ELSE /\ FreeRuns # {}
            /\ analyticsLoading' = TRUE
            /\ analyticsCharts' = <<>>
            /\ analyticsRuns' = [analyticsRuns EXCEPT
                                    ![LowestFreeRun] = calledChart(1, <<>>)]
            /\ analyticsLog' = [last |-> "started",
                                flip |-> ~analyticsLog.flip]
    /\ UNCHANGED <<coordVars, aggVars, effVars, slaVars, chartVars, perfVars>>
    /\ UNCHANGED <<lifeVars, listVars, passVars>>

\* the chart function run k awaits returns: with its chart stored, or with
\* nothing when it skipped or its query failed (its own catch block). After
\* the fourth one the finally block resets the flag.
ChartSettles(k, fetchError) ==
    /\ analyticsRuns[k].active
    /\ analyticsRuns[k].awaiting = "query"
    /\ LET i == analyticsRuns[k].chart
           key == ChartOrder[i]
       IN  /\ analyticsCharts' =
                 IF analyticsRuns[k].skip \/ fetchError
                    \/ hasChart(analyticsCharts, key)
                 THEN analyticsCharts
                 ELSE Append(analyticsCharts, key)
           /\ IF i < Len(ChartOrder)
              THEN /\ analyticsRuns' = [analyticsRuns EXCEPT
                                           ![k].awaiting = "timer"]
                   /\ UNCHANGED <<analyticsLoading, analyticsLog>>
              ELSE /\ analyticsRuns' = [analyticsRuns EXCEPT ![k] = IdleRun]
                   /\ analyticsLoading' = FALSE
                   /\ analyticsLog' = [last |-> "loaded",
                                       flip |-> analyticsLog.flip]
    /\ UNCHANGED <<coordVars, aggVars, effVars, slaVars, chartVars, perfVars>>
    /\ UNCHANGED <<lifeVars, listVars, passVars>>

\* await new Promise(resolve => setTimeout(resolve, 100)) of run k resumes
\* and the next chart function is called
DelayElapses(k) ==
    /\ analyticsRuns[k].active
    /\ analyticsRuns[k].awaiting = "timer"
    /\ analyticsRuns' =
          [analyticsRuns EXCEPT
              ![k] = calledChart(analyticsRuns[k].chart + 1, analyticsCharts)]
    /\ UNCHANGED <<analyticsLoading, analyticsCharts, analyticsLog>>
    /\ UNCHANGED <<coordVars, aggVars, effVars, slaVars, chartVars, perfVars>>
    /\ UNCHANGED <<lifeVars, listVars, passVars>>

AnaIdle ==
    /\ analyticsLoading = FALSE
    /\ analyticsRuns = [k \in RunSlots |-> IdleRun]
    /\ analyticsCharts = <<>>
    /\ analyticsLog = NoCall

\* the four groups above before anything has happened in them
RestIdle ==
    /\ LifeIdle
    /\ ListIdle
    /\ PassIdle
    /\ AnaIdle

(***************************************************************************)
(* View refresh coordinator: loadDashboardData and its four sections       *)
(***************************************************************************)
MaxCycles == 2       \* loadDashboardData invocations in flight at once
MaxStandalone == 1   \* notification-started invocations in flight per section

Sections == {"team", "agents", "recent", "charts"}
Awaiting == {"fetch", "fetchCases"}
Results == {"data", "empty", "error"}
FetchOutcomes == {"rows", "error"}
Slots == 1..MaxCycles

\* loadTeamOverview -> calculateTeamOverviewManually: one query, then the
\* metrics or, from the catch block, the all-zero metrics
loadTeamOverview(pc, out) ==
    IF out = "error" THEN "error" ELSE "data"

\* loadAgentPerformance -> calculateAgentPerformanceManually: the agents
\* query, then the cases query; a failed query makes the helper return [],
\* which loadAgentPerformance renders as "No agents found"
loadAgentPerformance(pc, out) ==
    CASE pc = "fetch" -> IF out = "error" THEN "empty" ELSE "fetchCases"
      [] pc = "fetchCases" -> IF out = "error" THEN "empty" ELSE "data"

\* loadRecentCases: one query, then the rows or the error row
loadRecentCases(pc, out) ==
    IF out = "error" THEN "error" ELSE "data"

\* updateDashboardCharts -> createCasesTimelineChart: one query, then the
\* chart or the placeholder
updateDashboardCharts(pc, out) ==
    IF out = "error" THEN "error" ELSE "data"

\* the continuation of a section after one of its awaited queries returns:
\* the next await, or what the section rendered
afterFetch(sec, pc, out) ==
    CASE sec = "team" -> loadTeamOverview(pc, out)
      [] sec = "agents" -> loadAgentPerformance(pc, out)
      [] sec = "recent" -> loadRecentCases(pc, out)
      [] sec = "charts" -> updateDashboardCharts(pc, out)

IdleCycle ==
    [active |-> FALSE, init |-> FALSE, failed |-> FALSE,
     pc |-> [sec \in Sections |-> "idle"]]
\* Promise.all([...]) has called all four sections; each awaits its query
NewCycle(init) ==
    [active |-> TRUE, init |-> init, failed |-> FALSE,
     pc |-> [sec \in Sections |-> "fetch"]]

Rendered(pc) == {sec \in Sections : pc[sec] = "done"}

\* a coordinator that resumes as soon as one section has settled
promiseRaceSettled(pc) == Rendered(pc) # {}

\* await Promise.all(...) resumes: no section rejects, so it resumes when
\* all four have run to their end
promiseAllSettled(pc) == Rendered(pc) = Sections

\* a cycle that returns without resetting the flag
finallyKeepsLoading == TRUE

\* finally { this.isLoading = false; ... }
finallyIsLoading == FALSE

ActiveCycles == {k \in Slots : cycles[k].active}
FreeSlots == Slots \ ActiveCycles
LowestFree == CHOOSE k \in FreeSlots : \A j \in FreeSlots : k <= j

StandaloneTasks ==
    {<<"team", "fetch">>, <<"recent", "fetch">>, <<"agents", "fetch">>,
     <<"agents", "fetchCases">>}

StandaloneInFlight(sec) ==
    (IF <<sec, "fetch">> \in StandaloneTasks
     THEN standalone[<<sec, "fetch">>] ELSE 0)
    + (IF <<sec, "fetchCases">> \in StandaloneTasks
       THEN standalone[<<sec, "fetchCases">>] ELSE 0)

CycleInFlight(sec) ==
    Cardinality({k \in ActiveCycles : cycles[k].pc[sec] \in Awaiting})

\* invocations of one section that have started and not yet rendered
InFlight(sec) == CycleInFlight(sec) + StandaloneInFlight(sec)

NoneDone == [finished |-> FALSE, rendered |-> {}, failed |-> FALSE]

\* async loadDashboardData(): the guard, then the synchronous prefix up to
\* await Promise.all
loadDashboardData(init) ==
    IF isLoading
    THEN UNCHANGED <<isLoading, cycles>>
    ELSE /\ FreeSlots # {}
         /\ isLoading' = TRUE
         /\ cycles' = [cycles EXCEPT ![LowestFree] = NewCycle(init)]

\* a trigger whose handler checks !this.isLoading before calling
guardedRefresh(wanted) ==
    IF wanted /\ ~isLoading
    THEN loadDashboardData(FALSE)
    ELSE UNCHANGED <<isLoading, cycles>>

\* init(): ... await this.loadDashboardData()
AppInit ==
    /\ phase = "new"
    /\ phase' = "initLoading"
    /\ loadDashboardData(TRUE)
    /\ UNCHANGED <<aggVars, effVars, slaVars, chartVars, perfVars>>
    /\ UNCHANGED <<lifeVars, listVars, passVars, anaVars>>
    /\ UNCHANGED <<refreshInterval, listeners, subscribed, destroyed,
                   chartsTimeline, standalone, lastDone>>

\* the setInterval callback of setupAutoRefresh
TimerTick ==
    /\ refreshInterval
    /\ guardedRefresh(TRUE)
    /\ UNCHANGED <<aggVars, effVars, slaVars, chartVars, perfVars>>
    /\ UNCHANGED <<lifeVars, listVars, passVars, anaVars>>
    /\ UNCHANGED <<refreshInterval, listeners, subscribed, phase, destroyed,
                   chartsTimeline, standalone, lastDone>>

\* the visibilitychange listener
VisibilityChange(hidden) ==
    /\ listeners
    /\ guardedRefresh(~hidden)
    /\ UNCHANGED <<aggVars, effVars, slaVars, chartVars, perfVars>>
    /\ UNCHANGED <<lifeVars, listVars, passVars, anaVars>>
    /\ UNCHANGED <<refreshInterval, listeners, subscribed, phase, destroyed,
                   chartsTimeline, standalone, lastDone>>

\* the window focus listener
WindowFocus ==
    /\ listeners
    /\ guardedRefresh(TRUE)
    /\ UNCHANGED <<aggVars, effVars, slaVars, chartVars, perfVars>>
    /\ UNCHANGED <<lifeVars, listVars, passVars, anaVars>>
    /\ UNCHANGED <<refreshInterval, listeners, subscribed, phase, destroyed,
                   chartsTimeline, standalone, lastDone>>

\* the global refreshDashboard(): if (app && !app.isLoading)
refreshDashboard ==
    /\ phase # "new"
    /\ ~destroyed
    /\ guardedRefresh(TRUE)
    /\ UNCHANGED <<aggVars, effVars, slaVars, chartVars, perfVars>>
    /\ UNCHANGED <<lifeVars, listVars, passVars, anaVars>>
    /\ UNCHANGED <<refreshInterval, listeners, subscribed, phase, destroyed,
                   chartsTimeline, standalone, lastDone>>

\* updateCaseStatus (cases.js) after a successful update:
\* app.loadDashboardData() without looking at isLoading
updateCaseStatus ==
    /\ phase # "new"
    /\ ~destroyed
    /\ loadDashboardData(FALSE)
    /\ UNCHANGED <<aggVars, effVars, slaVars, chartVars, perfVars>>
    /\ UNCHANGED <<lifeVars, listVars, passVars, anaVars>>
    /\ UNCHANGED <<refreshInterval, listeners, subscribed, phase, destroyed,
                   chartsTimeline, standalone, lastDone>>

\* handleCaseUpdate: this.loadTeamOverview(); this.loadRecentCases()
handleCaseUpdate ==
    /\ subscribed
    /\ StandaloneInFlight("team") < MaxStandalone
    /\ StandaloneInFlight("recent") < MaxStandalone
    /\ standalone' = [standalone EXCEPT
                         ![<<"team", "fetch">>] = @ + 1,
                         ![<<"recent", "fetch">>] = @ + 1]
    /\ UNCHANGED <<aggVars, effVars, slaVars, chartVars, perfVars>>
    /\ UNCHANGED <<lifeVars, listVars, passVars, anaVars>>
    /\ UNCHANGED <<isLoading, refreshInterval, listeners, subscribed, phase,
                   destroyed, chartsTimeline, cycles, lastDone>>

\* handleAgentUpdate: this.loadAgentPerformance()
handleAgentUpdate ==
    /\ subscribed
    /\ StandaloneInFlight("agents") < MaxStandalone
    /\ standalone' = [standalone EXCEPT ![<<"agents", "fetch">>] = @ + 1]
    /\ UNCHANGED <<aggVars, effVars, slaVars, chartVars, perfVars>>
    /\ UNCHANGED <<lifeVars, listVars, passVars, anaVars>>
    /\ UNCHANGED <<isLoading, refreshInterval, listeners, subscribed, phase,
                   destroyed, chartsTimeline, cycles, lastDone>>

\* createCasesTimelineChart stores the new chart in this.charts
chartsAfter(sec, res) ==
    IF sec = "charts" /\ res = "data" THEN TRUE ELSE chartsTimeline

\* a query of a section of cycle k returns; the section runs to its next
\* await or to its end, and when it was the last one the cycle's finally
\* block runs (and, for the cycle awaited by init(), the rest of init())
FetchReturns(k, sec, out) ==
    /\ cycles[k].active
    /\ cycles[k].pc[sec] \in Awaiting
    /\ LET res == afterFetch(sec, cycles[k].pc[sec], out)
           pc2 == [cycles[k].pc EXCEPT
                      ![sec] = IF res \in Results THEN "done" ELSE res]
           failed2 == cycles[k].failed \/ out = "error"
       IN  /\ chartsTimeline' = chartsAfter(sec, res)
           /\ IF promiseAllSettled(pc2)
              THEN /\ isLoading' = finallyIsLoading
                   /\ cycles' = [cycles EXCEPT ![k] = IdleCycle]
                   /\ lastDone' = [finished |-> TRUE,
                                   rendered |-> Rendered(pc2),
                                   failed |-> failed2]
                   /\ IF cycles[k].init
                      THEN /\ subscribed' = TRUE
                           /\ refreshInterval' = TRUE
                           /\ listeners' = TRUE
                           /\ phase' = "ready"
                      ELSE UNCHANGED <<subscribed, refreshInterval,
                                       listeners, phase>>
              ELSE /\ cycles' = [cycles EXCEPT ![k].pc = pc2,
                                               ![k].failed = failed2]
                   /\ UNCHANGED <<isLoading, lastDone, subscribed,
                                  refreshInterval, listeners, phase>>
    /\ UNCHANGED <<aggVars, effVars, slaVars, chartVars, perfVars>>
    /\ UNCHANGED <<lifeVars, listVars, passVars, anaVars>>
    /\ UNCHANGED <<destroyed, standalone>>

\* a query of a notification-started section invocation returns
StandaloneFetchReturns(sec, pc, out) ==
    /\ <<sec, pc>> \in StandaloneTasks
    /\ standalone[<<sec, pc>>] > 0
    /\ LET res == afterFetch(sec, pc, out)
       IN  /\ chartsTimeline' = chartsAfter(sec, res)
           /\ standalone' =
                 IF res \in Awaiting
                 THEN [standalone EXCEPT ![<<sec, pc>>] = @ - 1,
                                         ![<<sec, res>>] = @ + 1]
                 ELSE [standalone EXCEPT ![<<sec, pc>>] = @ - 1]
    /\ UNCHANGED <<aggVars, effVars, slaVars, chartVars, perfVars>>
    /\ UNCHANGED <<lifeVars, listVars, passVars, anaVars>>
    /\ UNCHANGED <<isLoading, refreshInterval, listeners, subscribed, phase,
                   destroyed, cycles, lastDone>>

\* destroy(): timer cleared, charts destroyed, channels removed, isLoading
\* reset; the document / window listeners are not removed
destroy ==
    /\ refreshInterval' = FALSE
    /\ chartsTimeline' = FALSE
    /\ subscribed' = FALSE
    /\ isLoading' = FALSE
    /\ destroyed' = TRUE
    /\ UNCHANGED <<aggVars, effVars, slaVars, chartVars, perfVars>>
    /\ UNCHANGED <<lifeVars, listVars, passVars, anaVars>>
    /\ UNCHANGED <<listeners, phase, cycles, standalone, lastDone>>

CoordInit ==
    /\ isLoading = FALSE
    /\ refreshInterval = FALSE
    /\ listeners = FALSE
    /\ subscribed = FALSE
    /\ phase = "new"
    /\ destroyed = FALSE
    /\ chartsTimeline = FALSE
    /\ cycles = [k \in Slots |-> IdleCycle]
    /\ standalone = [t \in StandaloneTasks |-> 0]
    /\ lastDone = NoneDone

AggIdle ==
    /\ cases = <<>>
    /\ metrics = NoMetrics
    /\ metricsApp = NoMetrics

EffIdle ==
    /\ agent = NoAgent
    /\ efficiency = NoLabel
    /\ efficiencyProto = NoLabel

SlaIdle ==
    /\ case_item = NoCase
    /\ hoursOpenMs = 0
    /\ overdue = NoVerdict
    /\ overdueCases = NoVerdict

Init ==
    /\ CoordInit
    /\ AggIdle
    /\ EffIdle
    /\ SlaIdle
    /\ ChartIdle
    /\ PerfIdle
    /\ RestIdle

\* the refresh cycle: every caller of loadDashboardData, the queries of its
\* sections, and destroy
RefreshNext ==
    \/ AppInit
    \/ TimerTick
    \/ \E hidden \in BOOLEAN : VisibilityChange(hidden)
    \/ WindowFocus
    \/ refreshDashboard
    \/ updateCaseStatus
    \/ \E k \in Slots, sec \in Sections, out \in FetchOutcomes :
          FetchReturns(k, sec, out)
    \/ destroy

\* the change notifications and the section invocations they start
NotifyNext ==
    \/ handleCaseUpdate
    \/ handleAgentUpdate
    \/ \E t \in StandaloneTasks, out \in FetchOutcomes :
          StandaloneFetchReturns(t[1], t[2], out)

Next == RefreshNext \/ NotifyNext

Spec == Init /\ [][Next]_vars

\* the refresh cycle alone; every query that was issued eventually returns
SpecRefresh ==
    /\ Init
    /\ [][RefreshNext]_vars
    /\ \A k \in Slots, sec \in Sections :
          WF_vars(\E out \in FetchOutcomes : FetchReturns(k, sec, out))

(***************************************************************************)
(* The team overview over every collection of up to MaxCases sample rows   *)
(***************************************************************************)
InitAgg ==
    /\ CoordInit
    /\ cases \in Collections
    /\ metrics = NoMetrics
    /\ metricsApp = NoMetrics
    /\ EffIdle
    /\ SlaIdle
    /\ ChartIdle
    /\ PerfIdle
    /\ RestIdle

NextAgg ==
    \/ \E fetchError \in BOOLEAN : calculateDashboard(fetchError)
    \/ \E fetchError \in BOOLEAN : calculateApp(fetchError)

SpecAgg == InitAgg /\ [][NextAgg]_vars

\* the same collections when the cases query succeeds
NextRows ==
    \/ calculateDashboard(FALSE)
    \/ calculateApp(FALSE)

SpecRows == InitAgg /\ [][NextRows]_vars

(***************************************************************************)
(* The team average over rows with every kind of response_time_minutes     *)
(***************************************************************************)
AvgStatusSamples == {Str(S_new), Str(S_resolved), Num(5)}

\* absent, zero, negative, text, and two positive numbers with a mean of 45.5
AvgTimeSamples ==
    {Null, Num(0), Num(0 - 5), Str(<<"3","0">>), Num(45), Num(46)}

AvgCaseSamples ==
    [status : AvgStatusSamples, priority : {Str(S_vip)},
     response_time_minutes : AvgTimeSamples]

InitAvg ==
    /\ CoordInit
    /\ cases \in UNION { [1..n -> AvgCaseSamples] : n \in 0..MaxCases }
    /\ metrics = NoMetrics
    /\ metricsApp = NoMetrics
    /\ EffIdle
    /\ SlaIdle
    /\ ChartIdle
    /\ PerfIdle
    /\ RestIdle

SpecAvg == InitAvg /\ [][NextRows]_vars

(***************************************************************************)
(* The efficiency label over the sample performance records                *)
(***************************************************************************)
InitEff ==
    /\ CoordInit
    /\ AggIdle
    /\ \E st \in AgentStatusSamples, r \in ResolvedTodaySamples,
          avg \in AvgSamples, p \in PendingSamples :
          agent = AgentRecord(st, r, avg, p)
    /\ efficiency = NoLabel
    /\ efficiencyProto = NoLabel
    /\ SlaIdle
    /\ ChartIdle
    /\ PerfIdle
    /\ RestIdle

NextEff ==
    \/ createAgentCard
    \/ createAgentCardProto

SpecEff == InitEff /\ [][NextEff]_vars

(***************************************************************************)
(* The SLA evaluation over the sample cases and ages                       *)
(***************************************************************************)
InitSla ==
    /\ CoordInit
    /\ AggIdle
    /\ EffIdle
    /\ case_item \in [status : SlaStatusSamples, priority : SlaPrioritySamples]
    /\ hoursOpenMs \in OpenMsSamples
    /\ overdue = NoVerdict
    /\ overdueCases = NoVerdict
    /\ ChartIdle
    /\ PerfIdle
    /\ RestIdle

NextSla ==
    \/ createCaseRow
    \/ createDetailedCaseRow

SpecSla == InitSla /\ [][NextSla]_vars

(***************************************************************************)
(* The charts over every collection of up to MaxCases sample rows          *)
(***************************************************************************)
InitCharts ==
    /\ CoordInit
    /\ AggIdle
    /\ EffIdle
    /\ SlaIdle
    /\ endDate \in EndDateSamples
    /\ chartCases \in UNION { [1..n -> ChartCaseSamples] : n \in 0..MaxCases }
    /\ casesTimeline = NoChart
    /\ volume = NoChart
    /\ tatTrends = NoSeries
    /\ PerfIdle
    /\ RestIdle

NextCharts ==
    \/ \E fetchError \in BOOLEAN : createCasesTimelineChart(fetchError)
    \/ \E fetchError \in BOOLEAN : createVolumeChart(fetchError)
    \/ \E fetchError \in BOOLEAN : createTATTrendsChart(fetchError)
    \/ destroyAllCharts

SpecCharts == InitCharts /\ [][NextCharts]_vars

(***************************************************************************)
(* The per-agent aggregations over up to MaxCases sample rows              *)
(***************************************************************************)
InitPerf ==
    /\ CoordInit
    /\ AggIdle
    /\ EffIdle
    /\ SlaIdle
    /\ ChartIdle
    /\ agentRows \in UNION { [1..n -> AgentRowSamples] : n \in 0..MaxCases }
    /\ performance = NoRecords
    /\ performanceProto = NoRecords
    /\ agentPerformance = NoRecords
    /\ agentDetailCard = NoRecords
    /\ RestIdle

NextPerf ==
    \/ \E fetchError \in BOOLEAN : calculateAgentPerformanceManually(fetchError)
    \/ \E fetchError \in BOOLEAN :
          calculateAgentPerformanceManuallyProto(fetchError)
    \/ \E fetchError \in BOOLEAN : createAgentPerformanceChart(fetchError)
    \/ \E agentsError, casesError \in BOOLEAN :
          loadAgentsSection(agentsError, casesError)
    \/ destroyAllCharts

SpecPerf == InitPerf /\ [][NextPerf]_vars

(***************************************************************************)
(* The status updates of one case, from every sample row                   *)
(***************************************************************************)
InitLife ==
    /\ CoordInit
    /\ AggIdle
    /\ EffIdle
    /\ SlaIdle
    /\ ChartIdle
    /\ PerfIdle
    /\ caseRow \in CaseRowSamples
    /\ rowStatus = NotRendered
    /\ modalStatus = NotRendered
    /\ clock = 1
    /\ lastUpdates = NoUpdates
    /\ ListIdle
    /\ PassIdle
    /\ AnaIdle

NextLife ==
    \/ loadCasesTable
    \/ openCaseModal
    \/ \E updateError \in BOOLEAN : quickUpdateStatus(updateError)
    \/ \E updateError \in BOOLEAN : startWorking(updateError)
    \/ \E updateError \in BOOLEAN : markResolved(updateError)
    \/ \E confirmed, getError, updateError \in BOOLEAN :
          escalateCase(confirmed, getError, updateError)
    \/ Tick

SpecLife == InitLife /\ [][NextLife]_vars

(***************************************************************************)
(* The agent list over every set of agents and up to MaxCases sample rows  *)
(***************************************************************************)
InitList ==
    /\ CoordInit
    /\ AggIdle
    /\ EffIdle
    /\ SlaIdle
    /\ ChartIdle
    /\ agentRows \in UNION { [1..n -> AgentRowSamples] : n \in 0..MaxCases }
    /\ performance = NoRecords
    /\ performanceProto = NoRecords
    /\ agentPerformance = NoRecords
    /\ agentDetailCard = NoRecords
    /\ LifeIdle
    /\ agentsTable \in SUBSET AgentIds
    /\ agentList = NoAgentList
    /\ PassIdle
    /\ AnaIdle

NextList ==
    \E agentsError, casesError \in BOOLEAN :
        loadAgentPerformanceSection(agentsError, casesError)

SpecList == InitList /\ [][NextList]_vars

(***************************************************************************)
(* One render pass over up to MaxCases sample rows while the clock runs    *)
(***************************************************************************)
InitPass ==
    /\ CoordInit
    /\ AggIdle
    /\ EffIdle
    /\ SlaIdle
    /\ ChartIdle
    /\ PerfIdle
    /\ LifeIdle
    /\ ListIdle
    /\ passCases \in UNION { [1..n -> PassRowSamples] : n \in 0..MaxCases }
    /\ passNow \in PassClockSamples
    /\ passFlags = <<>>
    /\ AnaIdle

NextPass ==
    \/ forEachCreateCaseRow
    \/ ClockAdvances

SpecPass == InitPass /\ [][NextPass]_vars

(***************************************************************************)
(* The analytics section under any sequence of calls                       *)
(***************************************************************************)
NextAnalytics ==
    \/ \E cleanupThrows \in BOOLEAN : loadAnalyticsSection(cleanupThrows)
    \/ \E k \in RunSlots, fetchError \in BOOLEAN : ChartSettles(k, fetchError)
    \/ \E k \in RunSlots : DelayElapses(k)

SpecAnalytics == Init /\ [][NextAnalytics]_vars

(***************************************************************************)
(* The SLA evaluation over the status values the aggregation is given      *)
(***************************************************************************)
InitSlaAny ==
    /\ CoordInit
    /\ AggIdle
    /\ EffIdle
    /\ case_item \in [status : StatusSamples, priority : SlaPrioritySamples]
    /\ hoursOpenMs \in OpenMsSamples
    /\ overdue = NoVerdict
    /\ overdueCases = NoVerdict
    /\ ChartIdle
    /\ PerfIdle
    /\ RestIdle

SpecSlaAny == InitSlaAny /\ [][NextSla]_vars

(***************************************************************************)
(* Properties of the refresh coordinator                                   *)
(***************************************************************************)

\* C1: at most one loadDashboardData invocation is in flight: a call made
\* while an earlier one has not finished starts no second fetch cycle
C1_SingleRefreshInFlight == Cardinality(ActiveCycles) <= 1

\* C2: for each section, no two fetch-aggregate-render cycles are in flight
\* at the same time, whatever the trigger
C2_OneCyclePerSection == \A sec \in Sections : InFlight(sec) <= 1

\* C7: a cycle in which a section's query failed still ends with all four
\* sections having run their fetch and render
C7_FailureDoesNotStopOthers ==
    lastDone.finished => lastDone.rendered = Sections

C7_Witness ==
    lastDone.finished /\ lastDone.failed /\ lastDone.rendered = Sections

C3_ResolvedPlusPendingIsTotal ==
    /\ metrics.ready =>
          metrics.m.total_resolved + metrics.m.total_pending
              = metrics.m.total_cases
    /\ metricsApp.ready =>
          metricsApp.m.total_resolved + metricsApp.m.total_pending
              = metricsApp.m.total_cases

\* status and priority of every row are strings or null
WellTyped(cs) ==
    \A i \in 1..Len(cs) :
        /\ cs[i].status.t \in {"null", "str"}
        /\ cs[i].priority.t \in {"null", "str"}

\* the status names a finished case once lower-cased and trimmed
NamesResolved(c) ==
    /\ c.status.t = "str"
    /\ trim(toLowerCase(c.status.s)) \in {S_resolved, S_closed}

\* C9: a case is counted as resolved exactly when its status, lower-cased
\* and trimmed, is 'resolved' or 'closed'; every other case, a null status
\* included, is counted as pending. Stated for both classes on collections
\* whose statuses and priorities are strings or null.
C9_ResolvedExactly ==
    LET finished == Cardinality({i \in 1..Len(cases) : NamesResolved(cases[i])})
        Exact(r) ==
            (r.ready /\ ~r.m.errorPath /\ WellTyped(cases)) =>
                /\ r.m.total_resolved = finished
                /\ r.m.total_pending = Len(cases) - finished
    IN  Exact(metrics) /\ Exact(metricsApp)

\* the priority is one of the four keys once lower-cased and trimmed
RecognizedPriority(c) ==
    /\ c.priority.t = "str"
    /\ trim(toLowerCase(c.priority.s)) \in {S_vip, S_urgent, S_normal, S_low}

\* C10: the four pending_breakdown counts of dashboard.js sum to at most
\* total_pending, and to exactly total_pending when every pending case has
\* a recognized priority.
C10_BreakdownAtMostPending ==
    metrics.ready =>
        /\ BreakdownSum(metrics.m) <= metrics.m.total_pending
        /\ (\A i \in 1..Len(cases) :
               ~NamesResolved(cases[i]) => RecognizedPriority(cases[i]))
             => BreakdownSum(metrics.m) = metrics.m.total_pending

\* a computed overview with a counted pending case and an uncounted one
C10_Witness ==
    /\ metrics.ready /\ ~metrics.m.errorPath
    /\ BreakdownSum(metrics.m) >= 1
    /\ BreakdownSum(metrics.m) < metrics.m.total_pending

\* the 'unknown' count of a produced breakdown, 0 when it has no such key
UnknownCount(m) ==
    LET S_unknown == <<"u","n","k","n","o","w","n">>
    IN  IF S_unknown \in DOMAIN m.pending_breakdown
        THEN m.pending_breakdown[S_unknown] ELSE 0

\* C11: pending cases with a missing or unrecognized priority are tracked in
\* an 'unknown' count, so the four named counts plus the unknown count equal
\* total_pending (dashboard.js, query succeeded).
C11_UnknownBucketTracked ==
    metrics.ready =>
        BreakdownSum(metrics.m) + UnknownCount(metrics.m)
            = metrics.m.total_pending

\* the response times that qualify: numbers strictly greater than zero
Qualifying(cs) ==
    {i \in 1..Len(cs) : /\ cs[i].response_time_minutes.t = "num"
                        /\ cs[i].response_time_minutes.n > 0}

RECURSIVE QualifyingSum(_, _)
QualifyingSum(cs, idx) ==
    IF idx = {} THEN 0
    ELSE LET i == CHOOSE j \in idx : TRUE
         IN  cs[i].response_time_minutes.n + QualifyingSum(cs, idx \ {i})

\* v is an integer nearest to sum / cnt
NearestMean(v, sum, cnt) ==
    /\ 2 * v * cnt - 2 * sum <= cnt
    /\ 2 * sum - 2 * v * cnt <= cnt

\* C12: team_avg_response_time is the mean, rounded to the nearest integer,
\* of response_time_minutes over exactly the cases where it is a number
\* greater than zero, and 0 when no case qualifies (both classes, query
\* succeeded).
C12_TeamAverageIsRoundedMean ==
    LET q == Qualifying(cases)
        RoundedMean(r) ==
            r.ready =>
                IF q = {} THEN r.m.team_avg_response_time = 0
                ELSE NearestMean(r.m.team_avg_response_time,
                                 QualifyingSum(cases, q), Cardinality(q))
    IN  RoundedMean(metrics) /\ RoundedMean(metricsApp)

\* C13: a malformed status or priority does not abort the aggregation of
\* dashboard.js: the other cases are still counted (query succeeded).
C13_MalformedValueDoesNotAbort ==
    metrics.ready =>
        /\ metrics.m.total_cases = Len(cases)
        /\ metrics.m.total_resolved
              = Cardinality({i \in 1..Len(cases) : NamesResolved(cases[i])})

(***************************************************************************)
(* Properties of the efficiency label                                      *)
(***************************************************************************)
\* the label the ordered rules give; a missing average compares as 0
FirstMatch(a) ==
    LET r == a.resolved_today.n
        t == IF a.avg_response_time.t = "num" THEN a.avg_response_time.n ELSE 0
        p == a.pending_cases.n
        offline == a.status = Str(S_offline)
        high == r >= 5 /\ t <= 60 /\ p <= 3
        good == r >= 3 \/ (t <= 120 /\ p <= 5)
        needs == p > 8 \/ t > 180
    IN  CASE offline -> ""
          [] ~offline /\ high -> "High Performer"
          [] ~offline /\ ~high /\ good -> "Good"
          [] ~offline /\ ~high /\ ~good /\ needs -> "Needs Support"
          [] ~offline /\ ~high /\ ~good /\ ~needs -> ""

\* C4: calculateAgentEfficiency, class method and prototype method, returns
\* the label of the first matching rule in the order offline, High
\* Performer, Good, Needs Support, none.
C4_FirstMatchingRule ==
    /\ efficiency.ready => efficiency.label = FirstMatch(agent)
    /\ efficiencyProto.ready => efficiencyProto.label = FirstMatch(agent)

\* an agent reaches 'Needs Support' only past the two better rules
C4_Witness ==
    /\ efficiency.ready /\ efficiencyProto.ready
    /\ efficiency.label = "Needs Support"
    /\ agent.resolved_today.n = 2 /\ agent.pending_cases.n = 9

\* the agent of the worked example: 5 resolved, 45 minutes, 9 pending
ExampleAgent ==
    /\ agent.status # Str(S_offline)
    /\ agent.resolved_today = Num(5)
    /\ agent.avg_response_time = Num(45)
    /\ agent.pending_cases = Num(9)

\* C5 as stated: the example agent is labelled 'Needs Support'.
C5_NeedsSupport ==
    (efficiency.ready /\ ExampleAgent) => efficiency.label = "Needs Support"

\* C5 amended: the example agent is labelled 'Good', because
\* resolved_today >= 3 matches before the pending-count rule is tried.
C5_LabelledGood ==
    (efficiency.ready /\ ExampleAgent) => efficiency.label = "Good"

C5_Witness == efficiency.ready /\ ExampleAgent /\ efficiency.label # ""

(***************************************************************************)
(* Properties of the SLA evaluation                                        *)
(***************************************************************************)
\* budget in hours of a priority value
BudgetHours(priority) ==
    IF priority = Str(S_vip) THEN 4
    ELSE IF priority = Str(S_urgent) THEN 8
    ELSE IF priority = Str(S_low) THEN 48
    ELSE 24

BucketDay(n, i) == DateStr(endDate) - n + i

\* the cases of the data source created / resolved on a day
CreatedThatDay(day) ==
    {j \in 1..Len(chartCases) : DateStr(chartCases[j].created_at.at) = day}

ResolvedThatDay(day) ==
    {j \in 1..Len(chartCases) :
        /\ chartCases[j].resolved_at.t # "null"
        /\ DateStr(chartCases[j].resolved_at.at) = day}

\* C14: in the 7-day and 30-day charts every case whose created_at date is
\* the date of a bucket is counted in that bucket's created count, whatever
\* its time of day.
C14_CreatedCountedByDate ==
    /\ casesTimeline.ready =>
          \A i \in 1..TimelineDays :
              casesTimeline.created[i]
                  = Cardinality(CreatedThatDay(BucketDay(TimelineDays, i)))
    /\ volume.ready =>
          \A i \in 1..ChartDays :
              volume.created[i]
                  = Cardinality(CreatedThatDay(BucketDay(ChartDays, i)))
    /\ tatTrends.ready =>
          \A i \in 1..ChartDays :
              tatTrends.count[i]
                  = Cardinality(CreatedThatDay(BucketDay(ChartDays, i)))

C16_ResolvedCountedByDate ==
    LET Exact(chart, n) ==
            chart.ready =>
                \A i \in 1..n :
                    chart.resolved[i]
                        = Cardinality(ResolvedThatDay(BucketDay(n, i)))
    IN  Exact(casesTimeline, TimelineDays) /\ Exact(volume, ChartDays)

RECURSIVE FieldSum(_, _, _)
FieldSum(cs, idx, field) ==
    IF idx = {} THEN 0
    ELSE LET i == CHOOSE j \in idx : TRUE
         IN  cs[i][field].n + FieldSum(cs, idx \ {i}, field)

\* the rows among idx whose duration is a number greater than zero
Measured(cs, idx, field) ==
    {j \in idx : cs[j][field].t = "num" /\ cs[j][field].n > 0}

\* v is 'no value' when q is empty and the mean over q otherwise
MeanOrNoValue(v, cs, q, field) ==
    IF q = {} THEN v.t = "null"
    ELSE v.t = "num" /\ v.n * Cardinality(q) = FieldSum(cs, q, field) * v.d

\* C17: in the per-day series a bucket with no qualifying (positive)
\* duration reports no value, never a number, and a bucket with some
\* reports their mean.
C17_EmptyBucketHasNoValue ==
    tatTrends.ready =>
        \A i \in 1..ChartDays :
            LET day == CreatedThatDay(BucketDay(ChartDays, i))
            IN  /\ MeanOrNoValue(tatTrends.avgResponse[i], chartCases,
                       Measured(chartCases, day, "response_time_minutes"),
                       "response_time_minutes")
                /\ MeanOrNoValue(tatTrends.avgResolution[i], chartCases,
                       Measured(chartCases, day, "resolution_time_minutes"),
                       "resolution_time_minutes")

(***************************************************************************)
(* Properties of the per-agent aggregations                                *)
(***************************************************************************)
CasesOf(a) == {j \in 1..Len(agentRows) : agentRows[j].agent_id = a}

Listed(r) == r.ready /\ r.records # <<>>

\* C18: the per-agent avg_response_time is the mean of the positive
\* response_time_minutes over all of the agent's cases, whatever their
\* status or resolution date, and no value when there is none.
C18_AgentAverageAllTime ==
    \A a \in AgentIds :
        LET q == Measured(agentRows, CasesOf(a), "response_time_minutes")
            Right(v) ==
                MeanOrNoValue(v, agentRows, q, "response_time_minutes")
        IN  /\ Listed(performance) =>
                  Right(performance.records[a].avg_response_time)
            /\ Listed(performanceProto) =>
                  Right(performanceProto.records[a].avg_response_time_today)
            /\ Listed(agentPerformance) =>
                  Right(agentPerformance.records[a].avgResponseTime)

\* C19: an absent, zero or negative duration is neither added to the sum
\* nor counted in the divisor of a per-agent average.
C19_NonPositiveNotMeasured ==
    \A a \in AgentIds :
        LET q == Measured(agentRows, CasesOf(a), "response_time_minutes")
            Clean(v) ==
                q # {} =>
                    /\ v.n = FieldSum(agentRows, q, "response_time_minutes")
                    /\ v.d = Cardinality(q)
        IN  /\ Listed(performance) =>
                  Clean(performance.records[a].avg_response_time)
            /\ Listed(agentPerformance) =>
                  Clean(agentPerformance.records[a].avgResponseTime)

\* C20: every per-agent aggregation counts 'resolved' and 'closed' as
\* resolved, so resolved + pending = total for each agent.
C20_AgentResolvedPlusPending ==
    \A a \in AgentIds :
        LET done == {j \in CasesOf(a) :
                        agentRows[j].status \in {Str(S_resolved), Str(S_closed)}}
        IN  /\ Listed(performance) =>
                  /\ performance.records[a].total_resolved = Cardinality(done)
                  /\ performance.records[a].total_resolved
                        + performance.records[a].pending_cases
                        = performance.records[a].total_cases
            /\ Listed(agentPerformance) =>
                  agentPerformance.records[a].totalResolved = Cardinality(done)
            /\ Listed(agentDetailCard) =>
                  agentDetailCard.records[a].resolvedCases
                      + agentDetailCard.records[a].pendingCases
                      = agentDetailCard.records[a].totalCases

(***************************************************************************)
(* Properties of the case status updates                                   *)
(***************************************************************************)
\* C21: starting from rows whose resolved or closed cases carry resolved_at,
\* after any sequence of successful status updates a case whose status is
\* 'resolved' or 'closed' has its resolved_at set.
C21_ResolvedHasTimestamp ==
    caseRow.status \in {S_resolved, S_closed} => caseRow.resolved_at # NoStamp

\* a case that started open has been resolved by the modal and then closed
\* by the quick update
C21_Witness ==
    /\ lastUpdates.written
    /\ lastUpdates.by = "quick"
    /\ lastUpdates.status = S_closed
    /\ caseRow.status = S_closed
    /\ caseRow.resolved_at = Stamp(clock)

\* the status values the original statement allows
ListedTargets == {S_in_progress, S_resolved, S_escalated, S_closed}

\* C22 as stated: every status a status-update action writes is one of
\* in_progress, resolved, escalated, closed.
C22_WritesListedStatus ==
    lastUpdates.written => lastUpdates.status \in ListedTargets

\* C22: every status a status-update action writes is one of assigned,
\* in_progress, resolved, escalated, closed; 'assigned' is written by the
\* quick update of a row rendered as 'new'.
C22_WritesListedOrAssigned ==
    /\ lastUpdates.written =>
          lastUpdates.status \in ListedTargets \cup {S_assigned}
    /\ lastUpdates.written /\ lastUpdates.status = S_assigned =>
          lastUpdates.by = "quick"

\* the quick update has moved a new case to 'assigned'
C22_Witness ==
    /\ lastUpdates.written
    /\ lastUpdates.by = "quick"
    /\ lastUpdates.before = S_new
    /\ lastUpdates.status = S_assigned
    /\ caseRow.status = S_assigned

\* C26: quickUpdateStatus never moves a case backward: a case whose status in
\* the data source is resolved or closed is never written back to assigned
\* or in_progress, and a closed case is never written back to resolved.
C26_QuickUpdateNeverBackward ==
    lastUpdates.written /\ lastUpdates.by = "quick" =>
        /\ lastUpdates.before \in {S_resolved, S_closed} =>
              lastUpdates.status \notin {S_assigned, S_in_progress}
        /\ lastUpdates.before = S_closed => lastUpdates.status # S_resolved

\* C27: once first_response_at is set, no later status update changes it; a
\* second entry into in_progress leaves it at its original value.
C27_FirstResponseKept ==
    [][caseRow.first_response_at # NoStamp =>
          caseRow'.first_response_at = caseRow.first_response_at]_vars

(***************************************************************************)
(* Properties of the agent list section                                    *)
(***************************************************************************)
\* C23: when the agents query or the cases query fails during a refresh of
\* the agent list, the section shows 'Error loading agent data' and not
\* 'No agents found'.
C23_FetchFailureShowsError ==
    agentList.fetchFailed => agentList.shown = "Error loading agent data"

(***************************************************************************)
(* Properties of one render pass                                           *)
(***************************************************************************)
\* C24: within one pass every overdue flag is evaluated against the same
\* 'now': two rows with equal created_at, priority and status receive the
\* same flag even if the clock advances during the pass.
C24_SameNowWithinPass ==
    \A i, j \in 1..Len(passFlags) :
        passCases[i] = passCases[j] => passFlags[i] = passFlags[j]

C28_ResolvedNeverOverdue ==
    isResolved(case_item) =>
        /\ overdue.ready => ~overdue.v
        /\ overdueCases.ready => ~overdueCases.v

(***************************************************************************)
(* Properties of destroy and of the analytics section                      *)
(***************************************************************************)
\* C29: after destroy() the instance is quiescent: no refresh timer remains,
\* the chart registry is empty and stays empty, and no new fetch cycle is
\* started, even when a refresh was in flight or a focus / visibility event
\* arrives afterwards.
C29_QuiescentAfterDestroy ==
    /\ [](destroyed => ~refreshInterval /\ ~chartsTimeline)
    /\ [][destroyed =>
             \A k \in Slots : cycles'[k].active => cycles[k].active]_vars


\* position of a chart key in the order of loadAnalyticsSection
OrderOf(key) == CHOOSE i \in 1..Len(ChartOrder) : ChartOrder[i] = key

\* the charts a run at this position can have created
CreatedSoFar(run) ==
    IF run.awaiting = "query" THEN run.chart - 1 ELSE run.chart

\* C30: at most one loadAnalyticsSection run is in flight; a call made while
\* analyticsLoading is true destroys and creates no chart; the charts of a
\* run are created one after another in the order TAT trends, volume,
\* priority distribution, agent performance; analyticsLoading is false
\* again after every run, successful or failed.
C30_OneAnalyticsRunAtATime ==
    /\ [](Cardinality(RunsInFlight) <= 1)
    /\ [](analyticsLoading <=> RunsInFlight # {})
    /\ [](\A i, j \in 1..Len(analyticsCharts) :
             i < j => OrderOf(analyticsCharts[i]) < OrderOf(analyticsCharts[j]))
    /\ [](\A k \in RunsInFlight, i \in 1..Len(analyticsCharts) :
             OrderOf(analyticsCharts[i]) <= CreatedSoFar(analyticsRuns[k]))
    /\ [][analyticsLoading /\ analyticsLog'.flip # analyticsLog.flip =>
             /\ analyticsLog'.last = "skipped"
             /\ analyticsCharts' = analyticsCharts
             /\ analyticsRuns' = analyticsRuns
             /\ analyticsLoading']_vars
    /\ [][\A k \in RunSlots :
             analyticsRuns[k].active /\ ~analyticsRuns'[k].active =>
                 ~analyticsLoading']_vars

\* a call was skipped while the run in flight, with two charts created, was
\* waiting for its third
C30_Witness ==
    /\ analyticsLog.last = "skipped"
    /\ analyticsLoading
    /\ analyticsCharts = <<"tatTrends", "volume">>
    /\ \E k \in RunsInFlight :
          /\ analyticsRuns[k].chart = 3
          /\ analyticsRuns[k].awaiting = "query"

====
